---------------------------- MODULE Spec2Model ----------------------------
(***************************************************************************)
(* A model of shell.py: the History navigator, the asynchronous Writer     *)
(* (render queue, Cursor, terminal surface) and the Shell session that     *)
(* drives them (prompt -> fetch -> execute, then shutdown).                *)
(*                                                                         *)
(* Python strings are sequences of one-character strings, so that strip,   *)
(* split, replace and the per-character loop of Writer.__print are         *)
(* computed as the code computes them.  Python's None is the value None    *)
(* below, which is no string of characters.                                *)
(***************************************************************************)
EXTENDS Integers, Sequences, FiniteSets, TLC

\* ------------------------------------------------------------------ bounds

\* Number of keys the user types in one session (getch calls that return).
MaxKeys == 5
\* Fragments that can wait in the queue when the session takes its next step:
\* how far the drain context can fall behind.
MaxQueue == 2
\* Terminal dimensions returned by getmaxyx().
Height == 2
Width == 8
\* History driven alone: number of entries, and of navigation calls in a row.
MaxHist == 3
\* Writer driven alone: number of add() calls of the producer.
MaxAdds == 4
\* __print driven alone: number of fragments applied and their length.
MaxPrints == 4
MaxFragLen == 2

\* --------------------------------------------------------------- constants

KEY_ENTER == 343
KEY_BACKSPACE == 263
KEY_UP == 259
KEY_DOWN == 258
KEY_LF == 10
\* getch's "no key" value, the code a read interrupted by a signal returns.
KEY_ERR == -1
\* The largest code chr() converts.
MaxCodePoint == 1114111

None == <<"None">>
LF == "\n"
CR == "\r"
Whitespace == {" ", LF, CR, "\t"}

\* ----------------------------------------------------------------- strings

\* str.strip(): the string without its leading and trailing whitespace.
RECURSIVE lstrip(_)
lstrip(s) ==
    IF s # <<>> /\ Head(s) \in Whitespace THEN lstrip(Tail(s)) ELSE s

RECURSIVE rstrip(_)
rstrip(s) ==
    IF s # <<>> /\ s[Len(s)] \in Whitespace
    THEN rstrip(SubSeq(s, 1, Len(s) - 1))
    ELSE s

\* A faulty strip that trims the left end only: C18 rules it out.
strip_left(s) == lstrip(s)

strip(s) == rstrip(lstrip(s))

\* The first token of a string that starts with a non-whitespace character.
RECURSIVE firstToken(_)
firstToken(s) ==
    IF s = <<>> \/ Head(s) \in Whitespace THEN <<>>
    ELSE <<Head(s)>> \o firstToken(Tail(s))

\* str.split(): the list of maximal runs of non-whitespace characters.
RECURSIVE split(_)
split(s) ==
    LET t == lstrip(s) IN
    IF t = <<>> THEN <<>>
    ELSE LET tok == firstToken(t) IN
         <<tok>> \o split(SubSeq(t, Len(tok) + 1, Len(t)))

startswith(s, p) == Len(s) >= Len(p) /\ SubSeq(s, 1, Len(p)) = p

\* str.replace(old, new) for a non-empty old: every occurrence, left to right.
RECURSIVE replace(_, _, _)
replace(s, old, new) ==
    IF s = <<>> THEN <<>>
    ELSE IF startswith(s, old)
         THEN new \o replace(SubSeq(s, Len(old) + 1, Len(s)), old, new)
         ELSE <<Head(s)>> \o replace(Tail(s), old, new)

\* ----------------------------------------------------------------- History

\* A faulty History.add, the selection set one past its place: C6 rules it
\* out.
History_add_past(commands, selectedIndex, command) ==
    [commands |-> Append(commands, command),
     selectedIndex |-> Len(commands) + 2]

\* A faulty add that skips a command equal to the newest entry: C14 rules
\* it out.
History_add_dedup(commands, selectedIndex, command) ==
    IF Len(commands) > 0 /\ commands[Len(commands)] = command
    THEN [commands |-> commands, selectedIndex |-> Len(commands)]
    ELSE [commands |-> Append(commands, command),
          selectedIndex |-> Len(commands) + 1]

\* History.add: the entries and the selection after add(command).
History_add(commands, selectedIndex, command) ==
    [commands |-> Append(commands, command),
     selectedIndex |-> Len(commands) + 1]

\* A faulty History.previous that stops before the oldest entry (> for >=):
\* C7 rules it out.
History_previous_short(commands, selectedIndex) ==
    IF selectedIndex - 1 > 0
    THEN [selectedIndex |-> selectedIndex - 1, ret |-> commands[selectedIndex]]
    ELSE [selectedIndex |-> selectedIndex, ret |-> None]

\* History.previous: the selection after the call and the value returned.
\* selectedIndex is the Python index, entry i is commands[i + 1].
History_previous(commands, selectedIndex) ==
    IF selectedIndex - 1 >= 0
    THEN [selectedIndex |-> selectedIndex - 1, ret |-> commands[selectedIndex]]
    ELSE [selectedIndex |-> selectedIndex, ret |-> None]

\* A faulty History.next that returns the next entry without moving to it:
\* C8 rules it out.
History_next_still(commands, selectedIndex) ==
    IF selectedIndex + 1 < Len(commands)
    THEN [selectedIndex |-> selectedIndex,
          ret |-> commands[selectedIndex + 2]]
    ELSE [selectedIndex |-> selectedIndex, ret |-> None]

\* A faulty History.next that steps from the newest entry back to the new
\* line, as other shells do: C19 rules it out.
History_next_past(commands, selectedIndex) ==
    IF selectedIndex + 1 < Len(commands)
    THEN [selectedIndex |-> selectedIndex + 1,
          ret |-> commands[selectedIndex + 2]]
    ELSE IF selectedIndex + 1 = Len(commands)
         THEN [selectedIndex |-> selectedIndex + 1, ret |-> None]
         ELSE [selectedIndex |-> selectedIndex, ret |-> None]

\* History.next: the selection after the call and the value returned.
History_next(commands, selectedIndex) ==
    IF selectedIndex + 1 < Len(commands)
    THEN [selectedIndex |-> selectedIndex + 1,
          ret |-> commands[selectedIndex + 2]]
    ELSE [selectedIndex |-> selectedIndex, ret |-> None]

\* A faulty History.last that returns the oldest entry: C9 rules it out.
History_last_first(commands) ==
    IF Len(commands) # 0 THEN commands[1] ELSE None

\* History.last: the value returned.
History_last(commands) ==
    IF Len(commands) # 0 THEN commands[Len(commands)] ELSE None


\* --------------------------------------------------------------- variables

VARIABLES
    \* Shell.run and the methods it calls (the session context)
    pc,             \* where the session context is
    command,        \* __fetch's line buffer
    character,      \* __fetch's last getch() result
    nKeys,          \* keys read so far
    raised,         \* the exception that left the loop of run, or "none"
    commands,       \* History.__commands
    selectedIndex,  \* History.__selectedIndex
    environment,    \* Shell.__environment
    config,         \* Shell.__config
    cwd,            \* the process's working directory
    windowOpen,     \* initscr() done and endwin() not yet
    shutdown,       \* the steps of run's finally block taken so far
    \* Shell.Writer (the drain context)
    wpc,            \* where Writer.run is
    queue,          \* Writer.__queue
    stopCalled,     \* Writer.__stopCalled
    cursor,         \* Writer.__cursor
    rows,           \* the window's cells
    scrolls,        \* calls of window.scroll made by __print
    message,        \* Writer.run's last dequeued message
    \* ghost variables, read only by the properties below
    added,          \* the fragments passed to add(), in order
    applied,        \* the fragments __print was called on, in order
    hop,            \* History driven alone: the last method called,
    harg,           \*   the argument of the most recent add,
    hret,           \*   the value the last call returned,
    hk,             \*   previous() calls in a row since the last add
    nPrints,        \* __print driven alone: fragments applied,
    nl,             \*   how many, while each was a lone newline (else -1),
    before          \*   the fragment applied before message, if a redraw

sessionVars == <<pc, command, character, nKeys, raised, environment, config,
                 cwd, windowOpen, shutdown>>
historyVars == <<commands, selectedIndex>>
writerVars == <<wpc, cursor, rows, scrolls, message, applied>>
queueVars == <<queue, added>>
historyObs == <<hop, harg, hret, hk>>
printObs == <<nPrints, nl, before>>
observerVars == <<historyObs, printObs>>
vars == <<sessionVars, historyVars, writerVars, queueVars, stopCalled,
          observerVars>>

\* ------------------------------------------------- the terminal surface

BlankRow == [i \in 1..Width |-> " "]

\* window.getmaxyx()
getmaxyx == <<Height, Width>>

\* window.move(y, x) raises curses.error outside the window.
Window_move_ok(y, x) == y >= 0 /\ y < Height /\ x >= 0 /\ x < Width

\* window.scroll(1): every line moves up by one, the last line is blank.
Window_scroll(r) == Tail(r) \o <<BlankRow>>

\* window.clrtoeol() with the physical cursor at (y, x).
Window_clrtoeol(r, y, x) ==
    [r EXCEPT ![y + 1] = [i \in 1..Width |-> IF i >= x + 1 THEN " " ELSE @[i]]]

\* window.addch(y, x, ch): the cell is written; in the last cell of the
\* window the line wraps and, scrollok being set, the window scrolls.
Window_addch(r, y, x, ch) ==
    LET put == [r EXCEPT ![y + 1][x + 1] = ch] IN
    IF y = Height - 1 /\ x = Width - 1 THEN Window_scroll(put) ELSE put

\* ----------------------------------------------------------------- Writer

\* Cursor's methods, on a record [x, y].
Cursor_reset(c) == [c EXCEPT !.x = 0]
Cursor_right(c) == [c EXCEPT !.x = @ + 1]
Cursor_down(c) == [c EXCEPT !.y = @ + 1]

\* One turn of the loop of Writer.__print.  w is the Writer's view of the
\* surface: [cursor, rows, scrolls, err], err once a curses call has raised.
\* A faulty newline that scrolls one row too late (> for >=): C10 rules it
\* out.
PrintNewline_late(w) ==
    LET c == Cursor_reset(w.cursor) IN
    IF c.y + 1 > getmaxyx[1]
    THEN [w EXCEPT !.cursor = c, !.rows = Window_scroll(w.rows),
                   !.scrolls = @ + 1]
    ELSE [w EXCEPT !.cursor = Cursor_down(c)]

\* A faulty newline that scrolls one row too early: C11 rules it out.
PrintNewline_early(w) ==
    LET c == Cursor_reset(w.cursor) IN
    IF c.y + 2 >= getmaxyx[1]
    THEN [w EXCEPT !.cursor = c, !.rows = Window_scroll(w.rows),
                   !.scrolls = @ + 1]
    ELSE [w EXCEPT !.cursor = Cursor_down(c)]

PrintNewline(w) ==
    LET c == Cursor_reset(w.cursor) IN
    IF c.y + 1 >= getmaxyx[1]
    THEN [w EXCEPT !.cursor = c, !.rows = Window_scroll(w.rows),
                   !.scrolls = @ + 1]
    ELSE [w EXCEPT !.cursor = Cursor_down(c)]

\* A faulty carriage return that does not clear the line: C12 rules it
\* out.
PrintReturn_noclear(w) ==
    LET c == Cursor_reset(w.cursor) IN
    IF Window_move_ok(c.y, c.x)
    THEN [w EXCEPT !.cursor = c]
    ELSE [w EXCEPT !.cursor = c, !.err = TRUE]

PrintReturn(w) ==
    LET c == Cursor_reset(w.cursor) IN
    IF Window_move_ok(c.y, c.x)
    THEN [w EXCEPT !.cursor = c, !.rows = Window_clrtoeol(w.rows, c.y, c.x)]
    ELSE [w EXCEPT !.cursor = c, !.err = TRUE]

PrintOther(ch, w) ==
    IF Window_move_ok(w.cursor.y, w.cursor.x)
    THEN [w EXCEPT !.rows = Window_addch(w.rows, w.cursor.y, w.cursor.x, ch),
                   !.cursor = Cursor_right(w.cursor)]
    ELSE [w EXCEPT !.err = TRUE]

PrintChar(ch, w) ==
    IF ch = LF THEN PrintNewline(w)
    ELSE IF ch = CR THEN PrintReturn(w)
    ELSE PrintOther(ch, w)

\* Writer.__print(message): the characters in order, up to the first one
\* whose curses call raises.
RECURSIVE Writer_print(_, _)
Writer_print(m, w) ==
    IF m = <<>> \/ w.err THEN w
    ELSE Writer_print(Tail(m), PrintChar(Head(m), w))

\* Writer.add(message): the queue after the call.
Writer_add(q, m) == IF m # None THEN Append(q, m) ELSE q

\* A faulty queue that hands out the newest item first: C2 rules it out.
Queue_get_newest(q) ==
    [item |-> q[Len(q)], rest |-> SubSeq(q, 1, Len(q) - 1)]

\* Queue.get(): the item returned and the queue left.
Queue_get(q) == [item |-> Head(q), rest |-> Tail(q)]

\* Thread.is_alive() of the Writer.
Writer_alive == wpc \notin {"finished", "crashed"}

\* Writer.run, the loop's test: stop() is seen here and nowhere else.
WriterLoop ==
    /\ wpc = "while"
    /\ wpc' = IF ~stopCalled THEN "body" ELSE "sleep"
    /\ UNCHANGED <<cursor, rows, scrolls, message, applied>>
    /\ UNCHANGED <<sessionVars, historyVars, queueVars, stopCalled,
                   observerVars>>

\* A faulty loop body that calls get() without testing empty(), and so
\* blocks while the queue is empty: C20 rules it out.
WriterTake_blocking ==
    /\ wpc = "body"
    /\ queue # <<>>
    /\ LET g == Queue_get(queue)
           w == Writer_print(g.item, [cursor |-> cursor, rows |-> rows,
                                      scrolls |-> scrolls, err |-> FALSE])
           ok == ~w.err /\ Window_move_ok(w.cursor.y, w.cursor.x)
       IN /\ queue' = g.rest
          /\ message' = g.item
          /\ cursor' = w.cursor
          /\ rows' = w.rows
          /\ scrolls' = w.scrolls
          /\ wpc' = IF ok THEN "while" ELSE "crashed"
    /\ UNCHANGED <<sessionVars, historyVars, stopCalled, observerVars>>

\* Writer.run, the loop's body: one message is taken and printed, then the
\* physical cursor is moved to the Cursor and the window refreshed.  An error
\* raised by curses ends the thread.
WriterTake ==
    /\ wpc = "body"
    /\ IF queue # <<>>
       THEN LET g == Queue_get(queue)
                w == Writer_print(g.item, [cursor |-> cursor, rows |-> rows,
                                           scrolls |-> scrolls, err |-> FALSE])
                ok == ~w.err /\ Window_move_ok(w.cursor.y, w.cursor.x)
            IN /\ queue' = g.rest
               /\ message' = g.item
               /\ cursor' = w.cursor
               /\ rows' = w.rows
               /\ scrolls' = w.scrolls
               /\ wpc' = IF ok THEN "while" ELSE "crashed"
       ELSE /\ wpc' = "while"
            /\ UNCHANGED <<queue, message, cursor, rows, scrolls>>
    /\ UNCHANGED <<sessionVars, historyVars, stopCalled, observerVars>>

WriterBody ==
    /\ WriterTake
    /\ UNCHANGED <<added, applied>>

\* Writer.run, after the loop: sleep(0.1), then the thread ends.
WriterSleep ==
    /\ wpc = "sleep"
    /\ wpc' = "finished"
    /\ UNCHANGED <<cursor, rows, scrolls, message, applied>>
    /\ UNCHANGED <<sessionVars, historyVars, queueVars, stopCalled,
                   observerVars>>

Writer_run == WriterLoop \/ WriterBody \/ WriterSleep


\* ------------------------------------------------------- the session's text

MsgCdUsage ==
    <<"c", "d", ":", " ", "N", "e", "e", "d", " ", "d", "i", "r", "e", "c",
      "t", "o", "r", "y", " ", "a", "s", " ", "a", "r", "g", "u", "m", "e",
      "n", "t", ".", "\n">>
MsgCdInvalid ==
    <<"c", "d", ":", " ", "I", "n", "v", "a", "l", "i", "d", " ", "p", "a",
      "t", "h", ".", " ", "D", "i", "d", " ", "n", "o", "t", " ", "c", "h",
      "a", "n", "g", "e", " ", "d", "i", "r", "e", "c", "t", "o", "r", "y",
      ".", "\n">>
MsgNotFound ==
    <<"C", "o", "m", "m", "a", "n", "d", " ", "n", "o", "t", " ", "f", "o",
      "u", "n", "d", ":", " ">>
KeyHOME == <<"H", "O", "M", "E">>
KeyPWD == <<"P", "W", "D">>
WordExit == <<"e", "x", "i", "t">>
WordCd == <<"c", "d">>

\* What the user types.  A printable key is typed only where it continues
\* one of these lines; the editing keys are typed anywhere.
Lines == {<<"e", "x", "i", "t">>, <<"c", "d", " ", "a">>, <<" ", "a", " ">>}

\* The directories chdir can end in, as getcwd() names them.
Dirs == {<<"/", "h">>, <<"/", "h", "/", "a">>, <<"/", "a", "/", "h">>}

\* What a spawned process can have written to its standard output.
Outputs == {<<>>, <<"h", "i", "\n">>}

\* ord() and chr() on the characters of Lines.
ord(ch) ==
    CASE ch = " " -> 32
      [] ch = "a" -> 97
      [] ch = "c" -> 99
      [] ch = "d" -> 100
      [] ch = "e" -> 101
      [] ch = "i" -> 105
      [] ch = "t" -> 116
      [] ch = "x" -> 120

Alphabet == {" ", "a", "c", "d", "e", "i", "t", "x"}

\* chr(code) raises ValueError outside 0..0x10ffff.
chr_ok(code) == code >= 0 /\ code <= MaxCodePoint

chr(code) == CHOOSE ch \in Alphabet : ord(ch) = code

Typable(buffer) ==
    {ch \in Alphabet : \E l \in Lines : startswith(l, Append(buffer, ch))}

EditKeys == {KEY_ENTER, KEY_LF, KEY_BACKSPACE, KEY_UP, KEY_DOWN}

\* What getch() can return with the line buffer as it is.
Keys(buffer) == EditKeys \cup {KEY_ERR} \cup {ord(ch) : ch \in Typable(buffer)}


\* ------------------------------------------------------------------ Shell

\* Shell.__resetPrompt: the PROMPT computed from the environment.
resetPrompt(env) == replace(env[KeyPWD] \o <<" ", "$">>, env[KeyHOME], <<"~">>)

\* A faulty substitution that drops the "$" of a name it does not know:
\* C15 rules it out.
replaceEnvironmentVars_strip(tokens, env) ==
    [i \in 1..Len(tokens) |->
        LET t == tokens[i] IN
        IF startswith(t, <<"$">>)
        THEN IF Tail(t) \in DOMAIN env THEN env[Tail(t)] ELSE Tail(t)
        ELSE t]

\* Shell.__replaceEnvironmentVars on a list of tokens.
replaceEnvironmentVars(tokens, env) ==
    [i \in 1..Len(tokens) |->
        LET t == tokens[i] IN
        IF startswith(t, <<"$">>) /\ Tail(t) \in DOMAIN env
        THEN env[Tail(t)]
        ELSE t]

\* The fragment __fetch redraws the line with.
Redraw(buffer) == <<CR>> \o config.PROMPT \o buffer

\* An exception leaves the loop of run: except logs it, finally follows.
Raise(e) ==
    /\ pc' = "deinitWriter"
    /\ raised' = e

\* run, the loop's first statement, and __fetch's first: the prompt is
\* queued and the line buffer starts empty.
RunPrompt ==
    /\ pc = "run"
    /\ queue' = Writer_add(queue, <<CR>> \o config.PROMPT)
    /\ UNCHANGED added
    /\ command' = <<>>
    /\ pc' = "fetch"
    /\ UNCHANGED <<character, nKeys, raised, environment, config, cwd,
                   windowOpen, shutdown>>
    /\ UNCHANGED <<historyVars, writerVars, stopCalled, observerVars>>

\* What every turn of __fetch's loop shares: getch() returns k.
Getch(k) ==
    /\ pc = "fetch"
    /\ nKeys < MaxKeys
    /\ k \in Keys(command)
    /\ character' = k
    /\ nKeys' = nKeys + 1
    /\ UNCHANGED <<environment, config, cwd, windowOpen, shutdown, added>>
    /\ UNCHANGED <<writerVars, stopCalled, observerVars>>

IsEnter(k) == k = KEY_ENTER \/ k = KEY_LF

\* Enter on a line that is not blank: the loop is left, the newline is
\* queued and the stripped line recorded.
FetchCommit(k) ==
    /\ Getch(k)
    /\ IsEnter(k)
    /\ Len(strip(command)) # 0
    /\ command' = Append(command, LF)
    /\ queue' = Writer_add(queue, <<LF>>)
    /\ LET h == History_add(commands, selectedIndex, strip(command')) IN
          /\ commands' = h.commands
          /\ selectedIndex' = h.selectedIndex
    /\ pc' = "execute"
    /\ UNCHANGED raised

\* Enter on a blank line: a newline is queued, then the redraw.
FetchBlank(k) ==
    /\ Getch(k)
    /\ IsEnter(k)
    /\ Len(strip(command)) = 0
    /\ queue' = Writer_add(Writer_add(queue, <<LF>>), Redraw(command))
    /\ UNCHANGED <<pc, command, raised, historyVars>>

FetchBackspace(k) ==
    /\ Getch(k)
    /\ k = KEY_BACKSPACE
    /\ command' = SubSeq(command, 1, Len(command) - 1)
    /\ queue' = Writer_add(queue, Redraw(command'))
    /\ UNCHANGED <<pc, raised, historyVars>>

FetchUp(k) ==
    /\ Getch(k)
    /\ k = KEY_UP
    /\ LET temp == History_previous(commands, selectedIndex) IN
          /\ selectedIndex' = temp.selectedIndex
          /\ command' = IF temp.ret # None THEN temp.ret ELSE command
    /\ queue' = Writer_add(queue, Redraw(command'))
    /\ UNCHANGED <<pc, raised, commands>>

FetchDown(k) ==
    /\ Getch(k)
    /\ k = KEY_DOWN
    /\ LET temp == History_next(commands, selectedIndex) IN
          /\ selectedIndex' = temp.selectedIndex
          /\ command' = IF temp.ret # None THEN temp.ret ELSE command
    /\ queue' = Writer_add(queue, Redraw(command'))
    /\ UNCHANGED <<pc, raised, commands>>

\* Any other key: chr(character) is appended, or chr raises ValueError,
\* which the except clause of __fetch (KeyboardInterrupt) does not catch.
FetchOther(k) ==
    /\ Getch(k)
    /\ ~IsEnter(k)
    /\ k \notin {KEY_BACKSPACE, KEY_UP, KEY_DOWN}
    /\ IF chr_ok(k)
       THEN /\ command' = Append(command, chr(k))
            /\ queue' = Writer_add(queue, Redraw(command'))
                    /\ UNCHANGED <<pc, raised>>
       ELSE /\ Raise("ValueError")
            /\ UNCHANGED <<command, queue>>
    /\ UNCHANGED historyVars

\* KeyboardInterrupt while getch blocks: caught, the loop reads again.
FetchInterrupt ==
    /\ pc = "fetch"
    /\ UNCHANGED vars

fetch ==
    \/ \E k \in EditKeys \cup {KEY_ERR} \cup {ord(ch) : ch \in Alphabet} :
          \/ FetchCommit(k)
          \/ FetchBlank(k)
          \/ FetchBackspace(k)
          \/ FetchUp(k)
          \/ FetchDown(k)
          \/ FetchOther(k)
    \/ FetchInterrupt


\* __execute's command: the last entry split and substituted.
Tokens == replaceEnvironmentVars(split(History_last(commands)), environment)

\* What __execute leaves alone whatever the command.
ExecuteFrame ==
    /\ pc = "execute"
    /\ UNCHANGED <<command, character, nKeys, windowOpen, shutdown, added>>
    /\ UNCHANGED <<historyVars, writerVars, stopCalled, observerVars>>

\* Whether __execute gets as far as looking at command[0].
Dispatched == History_last(commands) # None /\ Tokens # <<>>

\* The ways __execute raises before it runs anything: None.split(),
\* command[0] of an empty list, and exit, whose __exit raises
\* ExitCalledException.
ExecuteExit ==
    /\ ExecuteFrame
    /\ IF History_last(commands) = None THEN Raise("AttributeError")
       ELSE IF Tokens = <<>> THEN Raise("IndexError")
       ELSE Tokens[1] = WordExit /\ Raise("ExitCalledException")
    /\ UNCHANGED <<environment, config, cwd, queue>>

\* cd with one argument: __changeDir.  chdir raises OSError or succeeds, and
\* getcwd() then names the directory reached (any of Dirs: the path may go
\* through links).
ExecuteChangeDir ==
    /\ ExecuteFrame
    /\ Dispatched
    /\ Tokens[1] = WordCd
    /\ Len(Tokens) = 2
    /\ LET path == replace(Tokens[2], <<"~">>, environment[KeyHOME]) IN
       \/ /\ path # <<>>
          /\ \E d \in Dirs :
                /\ cwd' = d
                /\ environment' = [environment EXCEPT ![KeyPWD] = d]
                /\ config' = [config EXCEPT !.PROMPT = resetPrompt(environment')]
          /\ UNCHANGED queue
       \/ /\ queue' = Writer_add(queue, MsgCdInvalid)
                /\ UNCHANGED <<environment, config, cwd>>
    /\ pc' = "run"
    /\ UNCHANGED raised

\* A faulty cd that goes home when it is given no directory, as other
\* shells do: C16 rules it out.
ExecuteCdUsage_home ==
    /\ ExecuteFrame
    /\ Dispatched
    /\ Tokens[1] = WordCd
    /\ Len(Tokens) # 2
    /\ cwd' = environment[KeyHOME]
    /\ environment' = [environment EXCEPT ![KeyPWD] = cwd']
    /\ config' = [config EXCEPT !.PROMPT = resetPrompt(environment')]
    /\ pc' = "run"
    /\ UNCHANGED <<raised, queue>>

\* cd with any other number of arguments.
ExecuteCdUsage ==
    /\ ExecuteFrame
    /\ Dispatched
    /\ Tokens[1] = WordCd
    /\ Len(Tokens) # 2
    /\ queue' = Writer_add(queue, MsgCdUsage)
    /\ pc' = "run"
    /\ UNCHANGED <<raised, environment, config, cwd>>

\* Anything else is spawned: its output is queued, or the executable is not
\* found, or the wait is interrupted, or Popen raises another error.
ExecuteSpawn ==
    /\ ExecuteFrame
    /\ Dispatched
    /\ Tokens[1] \notin {WordExit, WordCd}
    /\ \/ \E output \in Outputs :
             /\ queue' = Writer_add(queue, output)
                      /\ pc' = "run"
             /\ UNCHANGED raised
       \/ /\ queue' = Writer_add(queue, MsgNotFound \o Tokens[1] \o <<LF>>)
                /\ pc' = "run"
          /\ UNCHANGED raised
       \/ /\ pc' = "run"
          /\ UNCHANGED <<raised, queueVars>>
       \/ /\ Raise("PermissionError")
          /\ UNCHANGED queue
    /\ UNCHANGED <<environment, config, cwd>>

execute ==
    \/ ExecuteExit
    \/ ExecuteChangeDir
    \/ ExecuteCdUsage
    \/ ExecuteSpawn

\* KeyboardInterrupt outside the try blocks of __fetch and __execute: run's
\* except clause (Exception) lets it pass, its finally block still runs.
RunInterrupt ==
    /\ pc \in {"run", "execute"}
    /\ Raise("KeyboardInterrupt")
    /\ UNCHANGED <<command, character, nKeys, environment, config, cwd,
                   windowOpen, shutdown>>
    /\ UNCHANGED <<historyVars, writerVars, queueVars, stopCalled,
                   observerVars>>

\* Writer.stop()
Writer_stop ==
    /\ stopCalled' = TRUE

\* A faulty join that returns at once: C3 rules it out.
Thread_join_at_once == TRUE

\* Thread.join() returns once the thread has ended.
Thread_join == ~Writer_alive

\* __deinitWriter, first statement.
DeinitWriterStop ==
    /\ pc = "deinitWriter"
    /\ Writer_stop
    /\ shutdown' = Append(shutdown, "stop")
    /\ pc' = "join"
    /\ UNCHANGED <<command, character, nKeys, raised, environment, config,
                   cwd, windowOpen>>
    /\ UNCHANGED <<historyVars, writerVars, queueVars, observerVars>>

\* __deinitWriter, second statement.
DeinitWriterJoin ==
    /\ pc = "join"
    /\ Thread_join
    /\ shutdown' = Append(shutdown, "join")
    /\ pc' = "deinitWindow"
    /\ UNCHANGED <<command, character, nKeys, raised, environment, config,
                   cwd, windowOpen>>
    /\ UNCHANGED <<historyVars, writerVars, queueVars, stopCalled,
                   observerVars>>

\* __deinitWindow: endwin() releases the terminal.
DeinitWindow ==
    /\ pc = "deinitWindow"
    /\ windowOpen' = FALSE
    /\ shutdown' = Append(shutdown, "endwin")
    /\ pc' = "closed"
    /\ UNCHANGED <<command, character, nKeys, raised, environment, config,
                   cwd>>
    /\ UNCHANGED <<historyVars, writerVars, queueVars, stopCalled,
                   observerVars>>

\* Shell.__init__: the state when run is called, the Writer started.
Init ==
    /\ pc = "run"
    /\ command = <<>>
    /\ character = 0
    /\ nKeys = 0
    /\ raised = "none"
    /\ commands = <<>>
    /\ selectedIndex = 0
    /\ environment = (KeyHOME :> <<"/", "h">>) @@ (KeyPWD :> <<"/", "h">>)
    /\ config = [PROMPT |-> resetPrompt(environment)]
    /\ cwd = <<"/", "h">>
    /\ windowOpen = TRUE
    /\ shutdown = <<>>
    /\ wpc = "while"
    /\ queue = <<>>
    /\ stopCalled = FALSE
    /\ cursor = [x |-> 0, y |-> 0]
    /\ rows = [i \in 1..Height |-> BlankRow]
    /\ scrolls = 0
    /\ message = None
    /\ added = <<>>
    /\ applied = <<>>
    /\ hop = "init"
    /\ harg = None
    /\ hret = None
    /\ hk = 0
    /\ nPrints = 0
    /\ nl = 0
    /\ before = None

\* The session goes on while the Writer's thread is at most MaxQueue
\* fragments behind.
QueueRoom == Len(queue) < MaxQueue

\* Shell.run with the Writer's thread beside it.
Next ==
    \/ QueueRoom /\ RunPrompt
    \/ QueueRoom /\ fetch
    \/ QueueRoom /\ execute
    \/ RunInterrupt
    \/ DeinitWriterStop
    \/ DeinitWriterJoin
    \/ DeinitWindow
    \/ Writer_run

Spec == Init /\ [][Next]_vars


\* ------------------------------------------------ the History driven alone

\* Entries a caller adds (stripped lines; two, so that an entry can repeat).
HistoryWords == {<<"a">>, <<"c", "d">>}

\* What a call of a History method leaves alone.
HistoryFrame ==
    /\ UNCHANGED <<sessionVars, writerVars, queueVars, stopCalled, printObs>>

CallAdd(c) ==
    /\ Len(commands) < MaxHist
    /\ LET h == History_add(commands, selectedIndex, c) IN
          /\ commands' = h.commands
          /\ selectedIndex' = h.selectedIndex
    /\ hop' = "add"
    /\ harg' = c
    /\ hret' = None
    /\ hk' = 0
    /\ HistoryFrame

\* hk counts the previous() calls made in a row since the last add; a next()
\* in between ends the count (-1).
CallPrevious ==
    /\ hk < MaxHist + 2
    /\ LET h == History_previous(commands, selectedIndex) IN
          /\ selectedIndex' = h.selectedIndex
          /\ hret' = h.ret
    /\ hop' = "previous"
    /\ hk' = IF hk >= 0 THEN hk + 1 ELSE hk
    /\ UNCHANGED <<commands, harg>>
    /\ HistoryFrame

CallNext ==
    /\ LET h == History_next(commands, selectedIndex) IN
          /\ selectedIndex' = h.selectedIndex
          /\ hret' = h.ret
    /\ hop' = "next"
    /\ hk' = -1
    /\ UNCHANGED <<commands, harg>>
    /\ HistoryFrame

CallLast ==
    /\ hret' = History_last(commands)
    /\ hop' = "last"
    /\ UNCHANGED <<commands, selectedIndex, harg, hk>>
    /\ HistoryFrame

NextHistory ==
    \/ \E c \in HistoryWords : CallAdd(c)
    \/ CallPrevious
    \/ CallNext
    \/ CallLast

SpecHistory == Init /\ [][NextHistory]_vars

\* ------------------------------------------------- the Writer driven alone

\* Fragments a producer adds.
Fragments == {<<"A">>, <<"B">>, <<"C">>}

\* Any caller of add(): the fragment is queued, and recorded in added.
ProducerAdd(m) ==
    /\ pc = "run"
    /\ Len(added) < MaxAdds
    /\ queue' = Writer_add(queue, m)
    /\ added' = Append(added, m)
    /\ UNCHANGED <<sessionVars, historyVars, writerVars, stopCalled,
                   observerVars>>

\* The loop's body, the fragment it printed recorded in applied.
ObservedBody ==
    /\ WriterTake
    /\ applied' = IF queue # <<>> THEN Append(applied, message') ELSE applied
    /\ UNCHANGED added

\* A producer that adds and at any time leaves for run's finally block, with
\* the drain context beside it.
NextWriter ==
    \/ \E m \in Fragments : ProducerAdd(m)
    \/ RunInterrupt
    \/ DeinitWriterStop
    \/ DeinitWriterJoin
    \/ DeinitWindow
    \/ WriterLoop
    \/ ObservedBody
    \/ WriterSleep

SpecWriter == Init /\ [][NextWriter]_vars

\* The same under fair scheduling: the Writer's thread gets to run whenever
\* it can take a step, and so does the finally block of Shell.run.
SpecWriterFair ==
    /\ SpecWriter
    /\ WF_vars(WriterLoop)
    /\ WF_vars(ObservedBody)
    /\ WF_vars(WriterSleep)
    /\ WF_vars(DeinitWriterStop)
    /\ WF_vars(DeinitWriterJoin)
    /\ WF_vars(DeinitWindow)


\* -------------------------------------------------- __print driven alone

PrintChars == {LF, CR, "a"}

\* Texts without control characters: empty, short, the longest that fits
\* in a line with the Cursor after it, as long as a line, and longer.
Texts == {[i \in 1..n |-> "a"] : n \in {0, 1, Width - 1, Width, Width + 1}}

\* What __fetch queues after a key: "\r" and a text.
RedrawFragments == {<<CR>> \o t : t \in Texts}

PrintFragments ==
    UNION {[1..n -> PrintChars] : n \in 0..MaxFragLen} \cup RedrawFragments

\* __print(m) called on the Writer's Cursor and window as they are.
CallPrint(m) ==
    /\ nPrints < MaxPrints
    /\ wpc # "crashed"
    /\ LET w == Writer_print(m, [cursor |-> cursor, rows |-> rows,
                                 scrolls |-> scrolls, err |-> FALSE])
       IN /\ cursor' = w.cursor
          /\ rows' = w.rows
          /\ scrolls' = w.scrolls
          /\ wpc' = IF w.err THEN "crashed" ELSE wpc
    /\ message' = m
    /\ nPrints' = nPrints + 1
    /\ nl' = IF nl >= 0 /\ m = <<LF>> THEN nl + 1 ELSE -1
    /\ before' = IF message \in RedrawFragments THEN message ELSE None
    /\ UNCHANGED <<sessionVars, historyVars, queueVars, stopCalled, applied,
                   historyObs>>

NextPrint == \E m \in PrintFragments : CallPrint(m)

SpecPrint == Init /\ [][NextPrint]_vars


\* ---------------------------------------------- __execute of a given line

\* Lines committed by Enter, as typed.
ExecLines ==
    {<<"e", "x", "i", "t">>,
     <<"c", "d">>,
     <<"c", "d", " ", "a">>,
     <<"c", "d", " ", "a", " ", "a">>,
     <<"c", "d", " ", "~">>,
     <<"c", "d", " ", "$", "H", "O", "M", "E">>,
     <<"$", "H", "O", "M", "E">>,
     <<"a", " ", "$", "P", "W", "D", " ", "$", "X", " ", "$", " ", "H", "O", "M", "E">>}

\* The fragments __fetch has queued when l was typed key by key and Enter
\* pressed, after the prompt.
TypedFragments(l) ==
    [i \in 1..(Len(l) + 1) |->
        IF i <= Len(l) THEN Redraw(SubSeq(l, 1, i)) ELSE <<LF>>]

\* The shell was started in any of Dirs, the line l typed and Enter pressed,
\* all while the Writer's thread had not been scheduled yet: the state in
\* which __execute is entered.
InitExecute ==
    \E l \in ExecLines, start \in Dirs :
        /\ pc = "execute"
        /\ environment = (KeyHOME :> <<"/", "h">>) @@ (KeyPWD :> start)
        /\ config = [PROMPT |-> resetPrompt(environment)]
        /\ cwd = start
        /\ command = Append(l, LF)
        /\ character = KEY_LF
        /\ nKeys = Len(l) + 1
        /\ raised = "none"
        /\ commands = <<strip(command)>>
        /\ selectedIndex = 1
        /\ windowOpen = TRUE
        /\ shutdown = <<>>
        /\ wpc = "while"
        /\ queue = <<<<CR>> \o config.PROMPT>> \o TypedFragments(l)
        /\ stopCalled = FALSE
        /\ cursor = [x |-> 0, y |-> 0]
        /\ rows = [i \in 1..Height |-> BlankRow]
        /\ scrolls = 0
        /\ message = None
        /\ added = <<>>
        /\ applied = <<>>
        /\ hop = "init"
        /\ harg = None
        /\ hret = None
        /\ hk = 0
        /\ nPrints = 0
        /\ nl = 0
        /\ before = None

\* __execute, the next prompt and the shutdown, with the Writer's thread
\* beside them; no further key is typed.
NextExecute ==
    \/ execute
    \/ RunPrompt
    \/ RunInterrupt
    \/ DeinitWriterStop
    \/ DeinitWriterJoin
    \/ DeinitWindow
    \/ Writer_run

SpecExecute == InitExecute /\ [][NextExecute]_vars

\* ----------------------------------------------------------------- claims

Running == {"run", "fetch", "execute"}
ShuttingDown == {"deinitWriter", "join", "deinitWindow", "closed"}
ShutdownOrder == <<"stop", "join", "endwin">>

IsPrefix(s, t) == Len(s) <= Len(t) /\ SubSeq(t, 1, Len(s)) = s

\* C1: the Writer's shutdown loses no output: once its thread has ended after
\* stop(), no fragment is left in the queue.
C1_NoOutputLost == wpc = "finished" => queue = <<>>

\* C1 on the exit path alone: no fragment is left when the thread has ended
\* after the exit built-in.
C1_NoOutputLostOnExit ==
    (wpc = "finished" /\ raised = "ExitCalledException") => queue = <<>>

\* C2: Writer ordering: the fragments printed so far are, in order, the first
\* of the fragments passed to add(), and those still queued are the rest: none
\* is printed twice, skipped or reordered.
C2_WriterOrdering ==
    /\ IsPrefix(applied, added)
    /\ applied \o queue = added

C2_Witness ==
    /\ applied = <<(<<"A">>), <<"B">>, <<"A">>>>
    /\ queue = <<(<<"C">>)>>
    /\ wpc = "body"

\* C3: shutdown is unconditional, ordered and single: the loop of run is left
\* exactly when an exception was raised, and from then on stop(), join() and
\* the release of the terminal happen once each, in this order; the terminal
\* is never released while the Writer's thread is alive.
C3_ShutdownOnceInOrder ==
    /\ (raised # "none") <=> (pc \in ShuttingDown)
    /\ pc \in Running \cup {"deinitWriter"} => shutdown = <<>>
    /\ pc = "join" => shutdown = SubSeq(ShutdownOrder, 1, 1)
    /\ pc = "deinitWindow" => shutdown = SubSeq(ShutdownOrder, 1, 2)
    /\ pc = "closed" => shutdown = ShutdownOrder
    /\ stopCalled <=> Len(shutdown) >= 1
    /\ windowOpen <=> Len(shutdown) < 3
    /\ ~windowOpen => ~Writer_alive

C3_Witness ==
    /\ pc = "closed"
    /\ raised = "ExitCalledException"
    /\ shutdown = ShutdownOrder
    /\ wpc = "finished"
    /\ ~windowOpen

\* C4: a fault in the Writer reaches the session: once the drain context has
\* died of an exception, the session takes no further step of its
\* prompt/fetch/execute loop other than leaving it.
C4_WriterFaultStopsSession ==
    [][(wpc = "crashed" /\ pc \in Running) =>
           (pc' \notin Running \/ UNCHANGED <<sessionVars, historyVars, queue>>)]_vars

\* C5: a key code that is no editing key and that chr() cannot convert leaves
\* __fetch in its loop with the line buffer and the History as they were.
C5_UnmappableKeyIgnored ==
    [][(/\ pc = "fetch"
        /\ nKeys' = nKeys + 1
        /\ ~IsEnter(character')
        /\ character' \notin {KEY_BACKSPACE, KEY_UP, KEY_DOWN}
        /\ ~chr_ok(character'))
       => (/\ pc' = "fetch"
           /\ raised' = "none"
           /\ command' = command
           /\ commands' = commands
           /\ selectedIndex' = selectedIndex)]_vars

\* C6: the selection stays within 0..len(entries) whatever is called, and
\* add(c) appends c and sets the selection to len(entries).
C6_SelectionInRange ==
    /\ [](0 <= selectedIndex /\ selectedIndex <= Len(commands))
    /\ [][hop' = "add" =>
             /\ commands' = Append(commands, harg')
             /\ selectedIndex' = Len(commands')]_vars

C6_Witness ==
    /\ hop = "add"
    /\ Len(commands) = 3
    /\ selectedIndex = 3
    /\ commands[3] = harg

\* C7: after adds e1..en, the k-th previous() in a row returns e(n-k+1) for
\* k = 1..n, and None from the (n+1)-th on.
C7_PreviousWalksBack ==
    (hop = "previous" /\ hk >= 1) =>
        hret = (IF hk <= Len(commands)
                THEN commands[Len(commands) - hk + 1]
                ELSE None)

C7_Witness ==
    /\ hop = "previous"
    /\ Len(commands) = 3
    /\ hk = 3
    /\ hret = commands[1]
    /\ commands[1] # commands[3]

\* C8: previous() and next() never change the entries; when they return an
\* entry the selection has moved by exactly one, to that entry; they return
\* None only at the boundary (previous at selection 0, next with no entry
\* after the selection), and then the selection has not moved.
C8_NavigationAtBoundary ==
    [][hop' \in {"previous", "next"} =>
          /\ commands' = commands
          /\ IF hret' # None
             THEN /\ selectedIndex' =
                        selectedIndex + (IF hop' = "next" THEN 1 ELSE -1)
                  /\ selectedIndex' \in 0..(Len(commands) - 1)
                  /\ hret' = commands[selectedIndex' + 1]
             ELSE /\ selectedIndex' = selectedIndex
                  /\ hop' = "previous" => selectedIndex = 0
                  /\ hop' = "next" => selectedIndex + 1 >= Len(commands)]_vars

C8_Witness ==
    /\ hop = "next"
    /\ Len(commands) = 3
    /\ selectedIndex = 1
    /\ hret = commands[2]

\* C9: last() returns the argument of the most recent add (None before the
\* first), wherever the selection is, and changes nothing; the entries change
\* only by an add appending its argument.
C9_LastIsMostRecentAdd ==
    /\ [](hop = "last" => hret = harg)
    /\ [][/\ hop' = "last" => UNCHANGED <<commands, selectedIndex>>
          /\ \/ commands' = commands
             \/ hop' = "add" /\ commands' = Append(commands, harg')]_vars

C9_Witness ==
    /\ hop = "last"
    /\ Len(commands) = 3
    /\ commands[1] = commands[2]
    /\ commands[3] # commands[1]
    /\ selectedIndex = 0
    /\ hret = commands[3]

\* C10: the Cursor's row stays within 0..Height-1 whatever fragments are
\* printed; a fragment "\n" printed at row Height-1 scrolls the window by one
\* line and leaves the row, above it moves one row down without scrolling;
\* "\n" and "\r" set the column to 0.
C10_RowInsideViewport ==
    /\ [](0 <= cursor.y /\ cursor.y <= Height - 1)
    /\ [][/\ nPrints' = nPrints + 1
          /\ wpc' # "crashed"
          /\ message' # <<>>
          /\ message'[Len(message')] \in {LF, CR}
          => cursor'.x = 0]_vars
    /\ [][nPrints' = nPrints + 1 /\ message' \in {<<LF>>, <<CR>>} =>
             /\ cursor'.x = 0
             /\ IF message' = <<CR>>
                THEN cursor'.y = cursor.y /\ scrolls' = scrolls
                ELSE IF cursor.y = Height - 1
                THEN /\ cursor'.y = cursor.y
                     /\ scrolls' = scrolls + 1
                     /\ rows' = Tail(rows) \o <<BlankRow>>
                ELSE /\ cursor'.y = cursor.y + 1
                     /\ scrolls' = scrolls
                     /\ rows' = rows]_vars

C10_Witness ==
    /\ message = <<LF>>
    /\ cursor = [x |-> 0, y |-> Height - 1]
    /\ scrolls = 2
    /\ nPrints = 4


\* C11 as stated: Height + 1 fragments "\n" applied from row 0 make
\* exactly one call of window.scroll.
C11_OneScroll == nl = Height + 1 => scrolls = 1

\* C11 amended: Height + 1 fragments "\n" applied from row 0 make exactly
\* two calls of window.scroll (the first Height - 1 newlines move the Cursor
\* down to the last row, each later one scrolls); Height of them make one.
C11_TwoScrolls ==
    /\ nl = Height + 1 => scrolls = 2
    /\ nl = Height => scrolls = 1
    /\ (nl >= 0 /\ nl < Height) => scrolls = 0 /\ cursor.y = nl

C11_Witness == nl = Height + 1 /\ scrolls = 2 /\ cursor.y = Height - 1

\* A line showing the text t and blanks after it.
Shows(t) == [i \in 1..Width |-> IF i <= Len(t) THEN t[i] ELSE " "]

\* message and the fragment before it were both "\r" and a text.
TwoRedraws ==
    /\ nPrints >= 2
    /\ before \in RedrawFragments
    /\ message \in RedrawFragments

\* C12 as stated: after "\r" t1 and then "\r" t2, for any texts, the
\* Cursor's row shows exactly t2 and the Cursor's column is len(t2).
C12_NoResidue ==
    TwoRedraws =>
        /\ rows[cursor.y + 1] = Shows(Tail(message))
        /\ cursor.x = Len(Tail(message))

\* C12 amended: the same for texts shorter than the window's width.
C12_NoResidueInsideLine ==
    (TwoRedraws /\ Len(Tail(before)) < Width /\ Len(Tail(message)) < Width)
        => /\ rows[cursor.y + 1] = Shows(Tail(message))
           /\ cursor.x = Len(Tail(message))
           /\ wpc # "crashed"

C12_Witness ==
    /\ TwoRedraws
    /\ Len(Tail(before)) = Width - 1
    /\ Len(Tail(message)) = 1
    /\ cursor.y = Height - 1
    /\ rows[Height] = Shows(<<"a">>)

\* C13: add() leaves the queue as it was for None and for "", so the queue
\* never holds None or an empty fragment.
C13_NoEmptyFragment ==
    \A i \in 1..Len(queue) : queue[i] # None /\ queue[i] # <<>>

\* A step of __fetch's loop that read Enter.
ReadEnter == nKeys' = nKeys + 1 /\ IsEnter(character')

\* The line buffer holds nothing but whitespace.
Blank(buffer) == \A i \in 1..Len(buffer) : buffer[i] \in Whitespace

\* C14: __fetch is left (committed) only by Enter on a line buffer that is
\* not blank, and every such Enter appends exactly the trimmed buffer to
\* History, repeated or not; Enter on a blank buffer queues a lone "\n",
\* leaves History alone and stays in the loop; no other step changes
\* History's entries.
C14_CommitRule ==
    [][/\ (pc = "fetch" /\ pc' = "execute") =>
              ReadEnter /\ ~Blank(command)
       /\ (ReadEnter /\ ~Blank(command)) =>
              /\ pc' = "execute"
              /\ commands' = Append(commands, strip(command))
              /\ queue' = Append(queue, <<LF>>)
       /\ (ReadEnter /\ Blank(command)) =>
              /\ pc' = "fetch"
              /\ commands' = commands
              /\ SubSeq(queue', 1, Len(queue) + 1) = Append(queue, <<LF>>)
       /\ commands' # commands => ReadEnter /\ ~Blank(command)]_vars

\* The same line committed twice in a row.
C14_Witness ==
    /\ pc = "execute"
    /\ Len(commands) = 2
    /\ commands[1] = commands[2]

\* C15: __replaceEnvironmentVars gives as many tokens as it was given, in
\* the same order; a token "$" name with name a key of the environment has
\* become that key's value, every other token is as it was.
C15_Substitution ==
    commands # <<>> =>
        LET given == split(History_last(commands)) IN
        /\ Len(Tokens) = Len(given)
        /\ \A i \in 1..Len(given) :
              Tokens[i] =
                  IF given[i][1] = "$" /\ Tail(given[i]) \in DOMAIN environment
                  THEN environment[Tail(given[i])]
                  ELSE given[i]

C15_Witness ==
    /\ pc = "execute"
    /\ split(History_last(commands)) =
           <<<<"a">>, <<"$", "P", "W", "D">>, <<"$", "X">>, <<"$">>, <<"H", "O", "M", "E">>>>
    /\ Tokens = <<<<"a">>, <<"/", "a", "/", "h">>, <<"$", "X">>, <<"$">>, <<"H", "O", "M", "E">>>>

\* A step in which __execute ran to its end on a cd command with n tokens
\* (no KeyboardInterrupt cut it short).
ExecutedCd(n) ==
    /\ pc = "execute"
    /\ pc' # pc
    /\ raised' = "none"
    /\ Dispatched
    /\ Tokens[1] = WordCd
    /\ n = Len(Tokens)

\* C16: __execute of cd with no argument, or with two or more, leaves PWD,
\* the prompt and the working directory as they were, queues the usage
\* message and nothing else, and the session goes on with the next prompt.
C16_CdWrongArity ==
    [][(\E n \in {1} \cup (3..Len(Tokens)) : ExecutedCd(n)) =>
          /\ environment' = environment
          /\ config' = config
          /\ cwd' = cwd
          /\ queue' = Append(queue, MsgCdUsage)
          /\ pc' = "run"]_vars

\* cd a a has been answered by the usage message.
C16_Witness ==
    /\ pc = "run"
    /\ raised = "none"
    /\ Len(split(History_last(commands))) = 3
    /\ queue # <<>>
    /\ queue[Len(queue)] = MsgCdUsage
    /\ cwd = environment[KeyPWD]

\* PWD with the prefix HOME collapsed to "~", and " $": the prompt of an
\* environment.
PromptOf(env) ==
    LET pwd == env[KeyPWD]
        home == env[KeyHOME]
    IN (IF startswith(pwd, home)
        THEN <<"~">> \o SubSeq(pwd, Len(home) + 1, Len(pwd))
        ELSE pwd) \o <<" ", "$">>

\* C17: a cd that fails leaves PWD, the prompt and the working directory as
\* they were and queues the invalid-path message; one that succeeds sets PWD
\* to the directory reached and recomputes the prompt; either way the
\* session goes on, and every prompt queued is PWD with HOME collapsed to
\* "~".
C17_CdKeepsPrompt ==
    /\ [][ExecutedCd(2) =>
             /\ pc' = "run"
             /\ \/ /\ queue' = Append(queue, MsgCdInvalid)
                   /\ environment' = environment
                   /\ config' = config
                   /\ cwd' = cwd
                \/ /\ queue' = queue
                   /\ environment'[KeyPWD] = cwd'
                   /\ config'.PROMPT = PromptOf(environment')]_vars
    /\ [][(pc = "run" /\ pc' = "fetch") =>
             queue' = Append(queue, <<CR>> \o PromptOf(environment))]_vars

\* C17 with the prompt read as the code computes it (HOME replaced wherever
\* it occurs in PWD and " $"): this much holds.
C17_CdKeepsReplacedPrompt ==
    /\ [][ExecutedCd(2) =>
             /\ pc' = "run"
             /\ \/ /\ queue' = Append(queue, MsgCdInvalid)
                   /\ environment' = environment
                   /\ config' = config
                   /\ cwd' = cwd
                \/ /\ queue' = queue
                   /\ environment'[KeyPWD] = cwd'
                   /\ config'.PROMPT = resetPrompt(environment')]_vars
    /\ [][(pc = "run" /\ pc' = "fetch") =>
             queue' = Append(queue, <<CR>> \o resetPrompt(environment))]_vars

\* C18: every entry of History is non-empty and neither starts nor ends
\* with whitespace; so when __execute runs, history.last() is not None and
\* splits into at least one token.
C18_EntriesTrimmed ==
    /\ \A i \in 1..Len(commands) :
          /\ commands[i] # <<>>
          /\ commands[i][1] \notin Whitespace
          /\ commands[i][Len(commands[i])] \notin Whitespace
    /\ pc = "execute" =>
          /\ History_last(commands) # None
          /\ Len(split(History_last(commands))) >= 1
          /\ Len(Tokens) >= 1

\* __execute entered on a line typed with blanks around it.
C18_Witness ==
    /\ pc = "execute"
    /\ command = <<" ", "a", " ", LF>>
    /\ History_last(commands) = <<"a">>

\* C19: the selection is len(entries) only while History is empty or no
\* previous() has followed the last add; a previous() that returns an entry
\* leaves it below len(entries), and from below no previous(), next() or
\* last() brings it back; next() never moves past the newest entry.
C19_NoReturnToNewLine ==
    /\ [](hk >= 1 /\ Len(commands) > 0 => selectedIndex < Len(commands))
    /\ [][(hop' = "previous" /\ hret' # None) =>
             selectedIndex' < Len(commands')]_vars
    /\ [][(hop' # "add" /\ selectedIndex < Len(commands)) =>
             selectedIndex' < Len(commands')]_vars
    /\ [][(hop' = "next" /\ selectedIndex' # selectedIndex) =>
             selectedIndex' <= Len(commands) - 1]_vars

\* next() called on the newest entry after a walk back: None, and the
\* selection stays on the newest entry.
C19_Witness ==
    /\ Len(commands) >= 2
    /\ hop = "next"
    /\ hret = None
    /\ selectedIndex = Len(commands) - 1

\* C20: once stop() has been called the Writer's thread comes to an end,
\* whatever the queue holds and whatever is added meanwhile; it never stays
\* in the body of its loop (no blocking get on an empty queue); so join()
\* returns and a session that has entered the finally block of run gets to
\* its end.
C20_ShutdownTerminates ==
    /\ stopCalled ~> ~Writer_alive
    /\ (wpc = "body") ~> (wpc # "body")
    /\ (pc = "deinitWriter") ~> (pc = "closed")

\* The session is over, the thread ended, with fragments still in the queue.
C20_Witness ==
    /\ pc = "closed"
    /\ wpc = "finished"
    /\ shutdown = ShutdownOrder
    /\ queue # <<>>

=========================================================================
